---------------------------- MODULE Spec2Model ----------------------------
(***************************************************************************)
(* A model of the shapelet basis-evaluation engine: PackedIndex (the       *)
(* packed (x,y) traversal), HermiteEvaluator (the scalar evaluator) and    *)
(* ModelBuilder (the vectorized design-matrix builder).                    *)
(*                                                                         *)
(* Four state machines share the module, each with its own specification:  *)
(*   SpecIndex    a PackedIndex built by either constructor and advanced   *)
(*                by operator++ any number of times;                       *)
(*   SpecLoop     the documented loop                                      *)
(*                  for (PackedIndex i; i.getOrder() <= order; ++i) {..}   *)
(*                with SpecLoopFair its fair version (the loop is plain    *)
(*                sequential code: an enabled step is eventually taken);   *)
(*   SpecHermite  one HermiteEvaluator and a caller-owned target buffer;   *)
(*   SpecBuilder  one ModelBuilder and caller-owned output buffers.        *)
(* A specification leaves the variables of the other machines untouched.   *)
(***************************************************************************)
EXTENDS Integers, Sequences, FiniteSets

VARIABLES
    idx,        \* the PackedIndex object: [_n, _i, _x, _y]
    order,      \* SpecLoop: the caller's bound in the documented loop
    pc,         \* SpecLoop: position in the loop: "test", "body", "inc", "done"
    visited,    \* SpecLoop: the positions the loop body saw, in order
    he,         \* the HermiteEvaluator object: [_xWorkspace, _yWorkspace]
    heOrder,    \* the order HermiteEvaluator(order) was constructed with
    target,     \* the caller's buffer handed to the fill and sum operations
    written,    \* the (0-based) elements of target the last call assigned
    status,     \* how the last call ended: "ok" or "fatal"
    lastCall,   \* the last operation called
    result,     \* what the last sum operation returned
    mb,         \* the ModelBuilder object
    mbCtor,     \* the arguments ModelBuilder(order, x, y) was constructed with
    lastEllipse,\* <<e>> once update(e) was the last update, <<>> before any
    output,     \* the caller's output matrix (a sequence of columns)
    outVector,  \* the caller's output vector (one element per pixel)
    adds,       \* accumulations into the caller's buffers since they were zeroed
    mbStatus,   \* how the last ModelBuilder call ended: "ok" or "fatal"
    mbLastCall  \* the last ModelBuilder operation called, with its order argument

idxVars == <<idx, order, pc, visited>>

hermiteVars == <<he, heOrder, target, written, status, lastCall, result>>

builderVars == <<mb, mbCtor, lastEllipse, output, outVector, adds, mbStatus, mbLastCall>>

vars == <<idxVars, hermiteVars, builderVars>>

(***************************************************************************)
(* Bounds of the model.                                                    *)
(***************************************************************************)
\* SpecIndex: operator++ is applied while getOrder() <= MaxIndexOrder.
MaxIndexOrder == 15
\* SpecIndex: PackedIndex(x, y) is constructed with x, y in 0..MaxCtorXY.
MaxCtorXY == 3
\* SpecLoop: the loop's order bound is drawn from 0..MaxLoopOrder.
MaxLoopOrder == 7
\* SpecHermite: HermiteEvaluator(order) is constructed with order in 0..MaxHermiteOrder.
MaxHermiteOrder == 2
\* Integration moments are drawn from 0..MaxMoment.
MaxMoment == 1
\* SpecBuilder: ModelBuilder is constructed with order in 0..MaxBuilderOrder.
MaxBuilderOrder == 2
\* SpecBuilder: the coordinate arrays hold NPix pixels.
NPix == 2
\* SpecBuilder: at most MaxAdds accumulations into the caller's buffers between
\* two re-allocations of them.
MaxAdds == 1

(***************************************************************************)
(* PackedIndex                                                             *)
(*                                                                         *)
(* The four fields are C++ ints.  The model's integers are unbounded: the  *)
(* orders it reaches (below 20) keep n(n+1) far inside the range of int,   *)
(* which the class itself never tests for.                                 *)
(***************************************************************************)
\* a slip in the offset: n(n-1)/2
computeOffset_offByOne(n) == (n * (n - 1)) \div 2

computeOffset(n) == (n * (n + 1)) \div 2

computeIndex(x, y) == computeOffset(x + y) + x

\* PackedIndex()
PackedIndex == [_n |-> 0, _i |-> 0, _x |-> 0, _y |-> 0]

\* a slip in the explicit constructor: the index offset taken from y
PackedIndexXY_indexFromY(x, y) ==
    [_n |-> x + y, _i |-> computeOffset(x + y) + y, _x |-> x, _y |-> y]

\* PackedIndex(int const x, int const y)
PackedIndexXY(x, y) ==
    [_n |-> x + y, _i |-> computeOffset(x + y) + x, _x |-> x, _y |-> y]

getOrder(p) == p._n
getX(p) == p._x
getY(p) == p._y
getIndex(p) == p._i

\* slips in operator++
\* the else branch forgets ++_x
operatorIncrement_noX(p) ==
    IF p._y - 1 < 0
    THEN [_n |-> p._n + 1, _i |-> p._i + 1, _x |-> 0, _y |-> p._n + 1]
    ELSE [_n |-> p._n, _i |-> p._i + 1, _x |-> p._x, _y |-> p._y - 1]

\* the test is (--_y <= 0): the roll-over comes one position early
operatorIncrement_early(p) ==
    IF p._y - 1 <= 0
    THEN [_n |-> p._n + 1, _i |-> p._i + 1, _x |-> 0, _y |-> p._n + 1]
    ELSE [_n |-> p._n, _i |-> p._i + 1, _x |-> p._x + 1, _y |-> p._y - 1]

\* the roll-over forgets _x = 0
operatorIncrement_keepX(p) ==
    IF p._y - 1 < 0
    THEN [_n |-> p._n + 1, _i |-> p._i + 1, _x |-> p._x, _y |-> p._n + 1]
    ELSE [_n |-> p._n, _i |-> p._i + 1, _x |-> p._x + 1, _y |-> p._y - 1]

\* the roll-over writes _y = _n++ (post-increment)
operatorIncrement_postInc(p) ==
    IF p._y - 1 < 0
    THEN [_n |-> p._n + 1, _i |-> p._i + 1, _x |-> 0, _y |-> p._n]
    ELSE [_n |-> p._n, _i |-> p._i + 1, _x |-> p._x + 1, _y |-> p._y - 1]

\* ++_i is forgotten
operatorIncrement_noIndex(p) ==
    IF p._y - 1 < 0
    THEN [_n |-> p._n + 1, _i |-> p._i, _x |-> 0, _y |-> p._n + 1]
    ELSE [_n |-> p._n, _i |-> p._i, _x |-> p._x + 1, _y |-> p._y - 1]

\* PackedIndex & operator++(): ++_i; if (--_y < 0) { _x = 0; _y = ++_n; } else { ++_x; }
operatorIncrement(p) ==
    IF p._y - 1 < 0
    THEN [_n |-> p._n + 1, _i |-> p._i + 1, _x |-> 0, _y |-> p._n + 1]
    ELSE [_n |-> p._n, _i |-> p._i + 1, _x |-> p._x + 1, _y |-> p._y - 1]

(***************************************************************************)
(* SpecIndex: either constructor, then operator++ any number of times.     *)
(***************************************************************************)
InitIndex ==
    /\ idx \in {PackedIndex} \cup
               {PackedIndexXY(x, y) : x \in 0..MaxCtorXY, y \in 0..MaxCtorXY}
    /\ order = 0
    /\ pc = "free"
    /\ visited = <<>>

\* ++i, with no caller's bound but the model's.
Advance ==
    /\ getOrder(idx) <= MaxIndexOrder
    /\ idx' = operatorIncrement(idx)
    /\ UNCHANGED <<order, pc, visited>>
    /\ UNCHANGED <<hermiteVars, builderVars>>

NextIndex == Advance

(***************************************************************************)
(* SpecLoop: for (PackedIndex i; i.getOrder() <= order; ++i) { body }      *)
(***************************************************************************)
InitLoop ==
    /\ order \in 0..MaxLoopOrder
    /\ idx = PackedIndex
    /\ pc = "test"
    /\ visited = <<>>

\* i.getOrder() <= order
LoopTest ==
    /\ pc = "test"
    /\ pc' = IF getOrder(idx) <= order THEN "body" ELSE "done"
    /\ UNCHANGED <<idx, order, visited>>
    /\ UNCHANGED <<hermiteVars, builderVars>>

\* the body "utilizes i": it reads the four getters
LoopBody ==
    /\ pc = "body"
    /\ visited' = Append(visited, [n |-> getOrder(idx), i |-> getIndex(idx),
                                   x |-> getX(idx), y |-> getY(idx)])
    /\ pc' = "inc"
    /\ UNCHANGED <<idx, order>>
    /\ UNCHANGED <<hermiteVars, builderVars>>

\* ++i
LoopInc ==
    /\ pc = "inc"
    /\ idx' = operatorIncrement(idx)
    /\ pc' = "test"
    /\ UNCHANGED <<order, visited>>
    /\ UNCHANGED <<hermiteVars, builderVars>>

NextLoop == LoopTest \/ LoopBody \/ LoopInc


(***************************************************************************)
(* HermiteEvaluator                                                        *)
(*                                                                         *)
(* A workspace is a sequence: element k+1 holds the array's element k.     *)
(* Pixel values are floating point in the program; the model keeps the     *)
(* integer polynomial part of the recurrences (the Gaussian envelope and   *)
(* the square-root normalisation factors are left out), so that a value is *)
(* still a function of the order and of the coordinate or moment.          *)
(*                                                                         *)
(* The header declares the operations; getOrder() is defined in it.  The   *)
(* constructor and the bodies of the fill and sum operations follow the    *)
(* design description of the evaluator.                                    *)
(***************************************************************************)
\* the coordinates points are evaluated at
Coords == {0 - 1, 0, 1}

Moments == 0..MaxMoment

\* the packed size of a basis of the given order
computeSize(n) == computeOffset(n + 1)

\* a slip in getOrder: the workspace size itself
HermiteEvaluator_getOrder_noMinusOne(h) == Len(h._xWorkspace)

\* int getOrder() const { return _xWorkspace.getSize<0>() - 1; }
HermiteEvaluator_getOrder(h) == Len(h._xWorkspace) - 1

\* HermiteEvaluator(order): the two workspaces are allocated with order+1
\* elements; junk is what the fresh memory holds.
HermiteEvaluator(n, junk) ==
    [_xWorkspace |-> [k \in 1..(n + 1) |-> junk],
     _yWorkspace |-> [k \in 1..(n + 1) |-> junk]]

\* the three-term recurrence h_0 = 1, h_1 = x, h_(k+1) = x h_k - k h_(k-1)
RECURSIVE hermite(_, _)
hermite(k, x) ==
    IF k = 0 THEN 1
    ELSE IF k = 1 THEN x
    ELSE x * hermite(k - 1, x) - (k - 1) * hermite(k - 2, x)

\* fill a workspace of the same size with h_0(x) .. h_n(x)
fillEvaluation1d(workspace, x) ==
    [k \in 1..Len(workspace) |-> hermite(k - 1, x)]

\* the m-th moment of h_k under the unit Gaussian weight:
\* j_0(m) = (m-1)!! for even m and 0 for odd m, j_(k+1)(m) = j_k(m+1) - k j_(k-1)(m)
RECURSIVE moment(_, _)
moment(k, m) ==
    IF k = 0
    THEN (IF m % 2 = 1 THEN 0 ELSE IF m = 0 THEN 1 ELSE (m - 1) * moment(0, m - 2))
    ELSE IF k = 1 THEN moment(0, m + 1)
    ELSE moment(k - 1, m + 1) - (k - 1) * moment(k - 2, m)

\* fill a workspace of the same size with the m-th moments of h_0 .. h_n
fillIntegration1d(workspace, m) ==
    [k \in 1..Len(workspace) |-> moment(k - 1, m)]

\* void weaveFill(target) const:
\*   for (PackedIndex i; i.getOrder() <= getOrder(); ++i)
\*       target[i.getIndex()] = _xWorkspace[i.getX()] * _yWorkspace[i.getY()];
\* from position i on, with w the elements assigned so far
RECURSIVE weaveFillFrom(_, _, _, _)
weaveFillFrom(h, t, w, i) ==
    IF getOrder(i) <= HermiteEvaluator_getOrder(h)
    THEN weaveFillFrom(h,
             [t EXCEPT ![getIndex(i) + 1] =
                  h._xWorkspace[getX(i) + 1] * h._yWorkspace[getY(i) + 1]],
             w \cup {getIndex(i)},
             operatorIncrement(i))
    ELSE [target |-> t, written |-> w]

weaveFill(h, t) == weaveFillFrom(h, t, {}, PackedIndex)

\* double weaveSum(target) const: the same traversal, summing
\*   target[i.getIndex()] * _xWorkspace[i.getX()] * _yWorkspace[i.getY()]
RECURSIVE weaveSumFrom(_, _, _)
weaveSumFrom(h, t, i) ==
    IF getOrder(i) <= HermiteEvaluator_getOrder(h)
    THEN t[getIndex(i) + 1] * h._xWorkspace[getX(i) + 1] * h._yWorkspace[getY(i) + 1]
         + weaveSumFrom(h, t, operatorIncrement(i))
    ELSE 0

weaveSum(h, t) == weaveSumFrom(h, t, PackedIndex)

(***************************************************************************)
(* SpecHermite: one evaluator, and the caller's buffer.                    *)
(***************************************************************************)
JunkValues == {0, 1}

TargetLengths == 0..(computeSize(MaxHermiteOrder) + 1)

InitHermite ==
    /\ heOrder \in 0..MaxHermiteOrder
    /\ \E junk \in JunkValues : he = HermiteEvaluator(heOrder, junk)
    /\ target = <<>>
    /\ written = {}
    /\ status = "ok"
    /\ lastCall = "HermiteEvaluator"
    /\ result = 0

\* the caller allocates (or re-allocates) the buffer it will pass as target
AllocTarget ==
    \E len \in TargetLengths :
        /\ target' = [k \in 1..len |-> 0]
        /\ written' = {}
        /\ status' = "ok"
        /\ lastCall' = "allocate"
        /\ UNCHANGED <<he, heOrder, result>>
        /\ UNCHANGED <<idxVars, builderVars>>

\* a fill or sum operation that found target of the wrong length: the failure
\* is reported at the call and target is not assigned; whether the workspaces
\* were already refilled (with wx, wy) when the length was checked is left open
PreconditionFailure(op, wx, wy) ==
    /\ Len(target) # computeSize(HermiteEvaluator_getOrder(he))
    /\ status' = "fatal"
    /\ lastCall' = op
    /\ written' = {}
    /\ \/ he' = he
       \/ he' = [_xWorkspace |-> wx, _yWorkspace |-> wy]
    /\ UNCHANGED <<heOrder, target, result>>
    /\ UNCHANGED <<idxVars, builderVars>>

\* a fill operation on a target of the right length
Fill(op, wx, wy) ==
    /\ Len(target) = computeSize(HermiteEvaluator_getOrder(he))
    /\ he' = [_xWorkspace |-> wx, _yWorkspace |-> wy]
    /\ target' = weaveFill(he', target).target
    /\ written' = weaveFill(he', target).written
    /\ status' = "ok"
    /\ lastCall' = op
    /\ UNCHANGED <<heOrder, result>>
    /\ UNCHANGED <<idxVars, builderVars>>

\* a sum operation on a coefficient vector of the right length
Sum(op, wx, wy) ==
    /\ Len(target) = computeSize(HermiteEvaluator_getOrder(he))
    /\ he' = [_xWorkspace |-> wx, _yWorkspace |-> wy]
    /\ result' = weaveSum(he', target)
    /\ written' = {}
    /\ status' = "ok"
    /\ lastCall' = op
    /\ UNCHANGED <<heOrder, target>>
    /\ UNCHANGED <<idxVars, builderVars>>

\* void fillEvaluation(target, double x, double y) const
fillEvaluation ==
    \E x \in Coords, y \in Coords :
        LET wx == fillEvaluation1d(he._xWorkspace, x)
            wy == fillEvaluation1d(he._yWorkspace, y)
        IN  \/ Fill("fillEvaluation", wx, wy)
            \/ PreconditionFailure("fillEvaluation", wx, wy)

\* void fillIntegration(target, int xMoment, int yMoment) const
fillIntegration ==
    \E xMoment \in Moments, yMoment \in Moments :
        LET wx == fillIntegration1d(he._xWorkspace, xMoment)
            wy == fillIntegration1d(he._yWorkspace, yMoment)
        IN  \/ Fill("fillIntegration", wx, wy)
            \/ PreconditionFailure("fillIntegration", wx, wy)

\* double sumEvaluation(target, double x, double y) const
sumEvaluation ==
    \E x \in Coords, y \in Coords :
        LET wx == fillEvaluation1d(he._xWorkspace, x)
            wy == fillEvaluation1d(he._yWorkspace, y)
        IN  \/ Sum("sumEvaluation", wx, wy)
            \/ PreconditionFailure("sumEvaluation", wx, wy)

\* double sumIntegration(target, int xMoment, int yMoment) const
sumIntegration ==
    \E xMoment \in Moments, yMoment \in Moments :
        LET wx == fillIntegration1d(he._xWorkspace, xMoment)
            wy == fillIntegration1d(he._yWorkspace, yMoment)
        IN  \/ Sum("sumIntegration", wx, wy)
            \/ PreconditionFailure("sumIntegration", wx, wy)

NextHermite ==
    \/ AllocTarget
    \/ fillEvaluation
    \/ fillIntegration
    \/ sumEvaluation
    \/ sumIntegration


(***************************************************************************)
(* ModelBuilder                                                            *)
(*                                                                         *)
(* A per-pixel array is a sequence of NPix values; a workspace is a        *)
(* sequence of order+1 such arrays; the design matrix is a sequence of its *)
(* columns, one per packed index.  An ellipse core is given by the linear  *)
(* transform it maps to pixel coordinates with, [xx, xy, yx, yy].          *)
(*                                                                         *)
(* The two headers declare the builder (one with a constructor taking the  *)
(* order and _allocate(), one with addModelMatrix and addModelVector       *)
(* taking an order); the bodies follow the design description of the       *)
(* builder.                                                                *)
(***************************************************************************)
Ellipses ==
    { [xx |-> 1, xy |-> 0, yx |-> 0, yy |-> 1],
      [xx |-> 2, xy |-> 0, yx |-> 0, yy |-> 1],
      [xx |-> 1, xy |-> 1, yx |-> 0, yy |-> 1] }

\* the coordinate arrays a caller may construct the builder with
XArrays == { [k \in 1..NPix |-> k - 1], [k \in 1..NPix |-> 1] }
YArrays == { [k \in 1..NPix |-> 1 - k], [k \in 1..NPix |-> 0] }

\* void _allocate(): the buffers of a builder of the given order over npix
\* pixels; junk is what the fresh memory holds
allocate(n, npix, junk) ==
    [_xt |-> [k \in 1..npix |-> junk],
     _yt |-> [k \in 1..npix |-> junk],
     _xWorkspace |-> [j \in 1..(n + 1) |-> [k \in 1..npix |-> junk]],
     _yWorkspace |-> [j \in 1..(n + 1) |-> [k \in 1..npix |-> junk]],
     _model |-> [c \in 1..computeSize(n) |-> [k \in 1..npix |-> junk]]]

\* ModelBuilder(int order, x, y)
ModelBuilder(n, x, y, junk) ==
    LET a == allocate(n, Len(x), junk)
    IN  [_order |-> n, _x |-> x, _y |-> y, _ellipseFactor |-> 1,
         _xt |-> a._xt, _yt |-> a._yt,
         _xWorkspace |-> a._xWorkspace, _yWorkspace |-> a._yWorkspace,
         _model |-> a._model]

\* the recurrence of fillEvaluation1d, on a whole array of coordinates at once
fillWorkspace(workspace, coords) ==
    [j \in 1..Len(workspace) |->
        [k \in 1..Len(coords) |-> hermite(j - 1, coords[k])]]

\* every column of the design matrix by the packed traversal: column
\* i.getIndex() is _xWorkspace[i.getX()] * _yWorkspace[i.getY()], elementwise,
\* times the ellipse factor
RECURSIVE fillModelFrom(_, _, _)
fillModelFrom(m, cols, i) ==
    IF getOrder(i) <= m._order
    THEN fillModelFrom(m,
             [cols EXCEPT ![getIndex(i) + 1] =
                  [k \in 1..Len(m._xt) |->
                      m._ellipseFactor * m._xWorkspace[getX(i) + 1][k]
                                       * m._yWorkspace[getY(i) + 1][k]]],
             operatorIncrement(i))
    ELSE cols

\* the transform is re-derived, the coordinate arrays re-projected, the
\* workspaces regenerated and every column recomputed: the steps of update,
\* given the arrays (px, py) that are projected
updateFrom(m, e, px, py) ==
    LET m1 == [m EXCEPT !._ellipseFactor = e.xx * e.yy - e.xy * e.yx,
                        !._xt = [k \in 1..Len(px) |-> px[k] * e.xx + py[k] * e.xy],
                        !._yt = [k \in 1..Len(py) |-> px[k] * e.yx + py[k] * e.yy]]
        m2 == [m1 EXCEPT !._xWorkspace = fillWorkspace(m1._xWorkspace, m1._xt),
                         !._yWorkspace = fillWorkspace(m1._yWorkspace, m1._yt)]
    IN  [m2 EXCEPT !._model = fillModelFrom(m2, m2._model, PackedIndex)]

\* a slip in update: the arrays projected are the ones the last update left
update_reproject(m, e) == updateFrom(m, e, m._xt, m._yt)

\* void update(ellipses::BaseCore const & ellipse)
update(m, e) == updateFrom(m, e, m._x, m._y)

\* a slip in the add operations: the buffers are re-allocated for the order
\* the call asks for
reuseWorkspaces_resize(m, n) ==
    LET a == allocate(n, Len(m._x), 0)
    IN  [m EXCEPT !._order = n,
                  !._xWorkspace = a._xWorkspace,
                  !._yWorkspace = a._yWorkspace,
                  !._model = a._model]

\* the builder as an add operation asked for order n leaves it: the buffers
\* sized at construction are read, not re-allocated
reuseWorkspaces(m, n) == m

\* output += the first computeSize(n) columns of the design matrix
addColumns(m, n, out) ==
    [c \in 1..computeSize(n) |->
        [k \in 1..Len(m._x) |-> out[c][k] + m._model[c][k]]]

\* output += design matrix (first computeSize(n) columns) * coefficients
RECURSIVE dotFrom(_, _, _, _)
dotFrom(m, coefficients, k, c) ==
    IF c = 0 THEN 0
    ELSE coefficients[c] * m._model[c][k] + dotFrom(m, coefficients, k, c - 1)

addProduct(m, n, coefficients, out) ==
    [k \in 1..Len(m._x) |-> out[k] + dotFrom(m, coefficients, k, computeSize(n))]

(***************************************************************************)
(* SpecBuilder: one builder, and the caller's output buffers.              *)
(***************************************************************************)
OrderArguments == 0..(MaxBuilderOrder + 1)

\* the coefficient vectors a caller passes with order argument n: of the right
\* length (the first basis function alone, or all of them with weight one),
\* or one element too long
CoefficientVectors(n) ==
    { [c \in 1..computeSize(n) |-> IF c = 1 THEN 1 ELSE 0],
      [c \in 1..computeSize(n) |-> 1],
      [c \in 1..(computeSize(n) + 1) |-> 1] }

InitBuilder ==
    /\ \E n \in 0..MaxBuilderOrder, x \in XArrays, y \in YArrays, junk \in JunkValues :
          /\ mb = ModelBuilder(n, x, y, junk)
          /\ mbCtor = [order |-> n, x |-> x, y |-> y]
    /\ lastEllipse = <<>>
    /\ output = <<>>
    /\ outVector = <<>>
    /\ adds = 0
    /\ mbStatus = "ok"
    /\ mbLastCall = [op |-> "ModelBuilder", order |-> mbCtor.order]

\* the caller allocates a zeroed output matrix for some order, and a zeroed
\* output vector
AllocOutput ==
    \E n \in 0..MaxBuilderOrder :
        /\ output' = [c \in 1..computeSize(n) |-> [k \in 1..NPix |-> 0]]
        /\ outVector' = [k \in 1..NPix |-> 0]
        /\ adds' = 0
        /\ mbStatus' = "ok"
        /\ mbLastCall' = [op |-> "allocate", order |-> n]
        /\ UNCHANGED <<mb, mbCtor, lastEllipse>>
        /\ UNCHANGED <<idxVars, hermiteVars>>

\* void update(ellipse)
Update ==
    \E e \in Ellipses :
        /\ mb' = update(mb, e)
        /\ lastEllipse' = <<e>>
        /\ mbStatus' = "ok"
        /\ mbLastCall' = [op |-> "update", order |-> mb._order]
        /\ UNCHANGED <<mbCtor, output, outVector, adds>>
        /\ UNCHANGED <<idxVars, hermiteVars>>

\* a shape that does not fit the requested order, or an order above the one
\* the builder is sized for: reported at the call, nothing is written
BuilderFailure(op, n) ==
    /\ mbStatus' = "fatal"
    /\ mbLastCall' = [op |-> op, order |-> n]
    /\ UNCHANGED <<mb, mbCtor, lastEllipse, output, outVector, adds>>

\* void addModelMatrix(int order, output); the design matrix is valid once
\* update has run
addModelMatrix ==
    \E n \in OrderArguments :
        /\ lastEllipse # <<>>
        /\ UNCHANGED <<idxVars, hermiteVars>>
        /\ IF n <= mb._order /\ Len(output) = computeSize(n)
           THEN /\ adds < MaxAdds
                /\ output' = addColumns(mb, n, output)
                /\ adds' = adds + 1
                /\ mbStatus' = "ok"
                /\ mbLastCall' = [op |-> "addModelMatrix", order |-> n]
                /\ mb' = reuseWorkspaces(mb, n)
                /\ UNCHANGED <<mbCtor, lastEllipse, outVector>>
           ELSE BuilderFailure("addModelMatrix", n)

\* void addModelVector(int order, coefficients, output)
addModelVector ==
    \E n \in OrderArguments : \E coefficients \in CoefficientVectors(n) :
        /\ lastEllipse # <<>>
        /\ UNCHANGED <<idxVars, hermiteVars>>
        /\ Len(outVector) = NPix
        /\ IF n <= mb._order /\ Len(coefficients) = computeSize(n)
           THEN /\ adds < MaxAdds
                /\ outVector' = addProduct(mb, n, coefficients, outVector)
                /\ adds' = adds + 1
                /\ mbStatus' = "ok"
                /\ mbLastCall' = [op |-> "addModelVector", order |-> n]
                /\ mb' = reuseWorkspaces(mb, n)
                /\ UNCHANGED <<mbCtor, lastEllipse, output>>
           ELSE BuilderFailure("addModelVector", n)

NextBuilder ==
    \/ AllocOutput
    \/ Update
    \/ addModelMatrix
    \/ addModelVector


(***************************************************************************)
(* The specifications.  A machine that a specification does not run stays  *)
(* in its idle state.                                                      *)
(***************************************************************************)
IdleIndex ==
    /\ idx = PackedIndex
    /\ order = 0
    /\ pc = "idle"
    /\ visited = <<>>

IdleHermite ==
    /\ he = HermiteEvaluator(0, 0)
    /\ heOrder = 0
    /\ target = <<>>
    /\ written = {}
    /\ status = "ok"
    /\ lastCall = "idle"
    /\ result = 0

IdleBuilder ==
    /\ mb = ModelBuilder(0, <<>>, <<>>, 0)
    /\ mbCtor = [order |-> 0, x |-> <<>>, y |-> <<>>]
    /\ lastEllipse = <<>>
    /\ output = <<>>
    /\ outVector = <<>>
    /\ adds = 0
    /\ mbStatus = "ok"
    /\ mbLastCall = [op |-> "idle", order |-> 0]

InitSpecIndex == InitIndex /\ IdleHermite /\ IdleBuilder

SpecIndex == InitSpecIndex /\ [][NextIndex]_vars

InitSpecLoop == InitLoop /\ IdleHermite /\ IdleBuilder

SpecLoop == InitSpecLoop /\ [][NextLoop]_vars

\* the loop is sequential code: a step that can be taken is taken
SpecLoopFair == SpecLoop /\ WF_vars(NextLoop)

InitSpecHermite == IdleIndex /\ InitHermite /\ IdleBuilder

SpecHermite == InitSpecHermite /\ [][NextHermite]_vars

InitSpecBuilder == IdleIndex /\ IdleHermite /\ InitBuilder

SpecBuilder == InitSpecBuilder /\ [][NextBuilder]_vars

Spec == SpecIndex

(***************************************************************************)
(* Properties of PackedIndex                                               *)
(***************************************************************************)
\* the number of pairs (x,y) with x+y <= n
PackedSize(n) == ((n + 1) * (n + 2)) \div 2

ValidPairs(n) == {q \in (0..n) \X (0..n) : q[1] + q[2] <= n}

VisitedPairs == {<<visited[k].x, visited[k].y>> : k \in 1..Len(visited)}

\* C1: in the loop from the origin, the position seen at step k (counted from
\* 0) is a pair (x,y) with x, y >= 0 and x+y <= order, no pair is seen twice,
\* computeIndex(x,y) is k, and when the loop is done after
\* (order+1)(order+2)/2 steps every such pair has been seen.
C1_PackedBijection ==
    /\ \A k \in 1..Len(visited) :
          /\ visited[k].x >= 0
          /\ visited[k].y >= 0
          /\ visited[k].x + visited[k].y <= order
          /\ computeIndex(visited[k].x, visited[k].y) = k - 1
    /\ \A j, k \in 1..Len(visited) :
          (visited[j].x = visited[k].x /\ visited[j].y = visited[k].y) => j = k
    /\ Len(visited) <= PackedSize(order)
    /\ pc = "done" =>
          /\ Len(visited) = PackedSize(order)
          /\ VisitedPairs = ValidPairs(order)

C1_Witness ==
    /\ pc = "done"
    /\ order >= 3
    /\ Len(visited) = PackedSize(order)

\* C2: whichever constructor built it and however often it was advanced, a
\* PackedIndex has x >= 0, y >= 0, order = x + y and
\* index = order(order+1)/2 + x.
C2_FieldsConsistent ==
    /\ getX(idx) >= 0
    /\ getY(idx) >= 0
    /\ getOrder(idx) = getX(idx) + getY(idx)
    /\ getIndex(idx) = (getOrder(idx) * (getOrder(idx) + 1)) \div 2 + getX(idx)
    /\ getIndex(idx) = computeOffset(getOrder(idx)) + getX(idx)

\* an order no constructor of the model builds, in the middle of its pairs
C2_Witness ==
    /\ getOrder(idx) = 2 * MaxCtorXY + 3
    /\ getX(idx) = 2
    /\ getY(idx) = 2 * MaxCtorXY + 1

\* C3: the positions the loop sees come by non-decreasing order; within one
\* order y strictly decreases and x strictly increases; the index grows by
\* exactly one per advance; the first six are (0,0),(0,1),(1,0),(0,2),(1,1),(2,0).
C3_FirstSix == <<<<0, 0>>, <<0, 1>>, <<1, 0>>, <<0, 2>>, <<1, 1>>, <<2, 0>>>>

C3_SequenceOrdered ==
    /\ \A j, k \in 1..Len(visited) : j < k => visited[j].n <= visited[k].n
    /\ \A k \in 1..(Len(visited) - 1) :
          /\ visited[k + 1].i = visited[k].i + 1
          /\ visited[k + 1].n = visited[k].n =>
                /\ visited[k + 1].y < visited[k].y
                /\ visited[k + 1].x > visited[k].x
    /\ \A k \in 1..Len(visited) :
          k <= 6 => <<visited[k].x, visited[k].y>> = C3_FirstSix[k]

C3_Witness ==
    /\ pc = "done"
    /\ Len(visited) > 6
    /\ <<visited[6].x, visited[6].y>> = <<2, 0>>

\* C4: the documented loop ends, its body having run exactly
\* (order+1)(order+2)/2 times, and it ends with getOrder() > order: at every
\* position operator++ yields a further position, it has no end state.
C4_LoopTerminates ==
    /\ <>(pc = "done")
    /\ [](pc = "done" =>
            /\ Len(visited) = PackedSize(order)
            /\ getOrder(idx) = order + 1)
    /\ [](/\ getIndex(operatorIncrement(idx)) = getIndex(idx) + 1
          /\ operatorIncrement(idx) # idx)

C4_Witness ==
    /\ pc = "done"
    /\ order = 4
    /\ Len(visited) = 15

\* C9: advancing from the last pair (x = n, y = 0) of order n gives x = 0,
\* y = n+1, order n+1, and no other advance changes the order.
C9_RollOver ==
    [][/\ (getX(idx) = getOrder(idx) /\ getY(idx) = 0) =>
             /\ getX(idx') = 0
             /\ getY(idx') = getOrder(idx) + 1
             /\ getOrder(idx') = getOrder(idx) + 1
       /\ getOrder(idx') # getOrder(idx) =>
             (getX(idx) = getOrder(idx) /\ getY(idx) = 0)]_vars

\* the first pair of an order no constructor of the model builds
C9_Witness ==
    /\ getOrder(idx) = 2 * MaxCtorXY + 2
    /\ getX(idx) = 0
    /\ getY(idx) = getOrder(idx)

\* C10 as stated: at (x = 0, y = n) the next operator++ resets y to 0 and
\* increments the order.
C10_AsStated ==
    [][(getX(idx) = 0 /\ getY(idx) = getOrder(idx)) =>
          (getY(idx') = 0 /\ getOrder(idx') = getOrder(idx) + 1)]_vars

\* C10 amended: it is at (x = n, y = 0) that the next operator++ increments
\* the order, resetting x to 0 and setting y to n+1; at (x = 0, y = n) with
\* n >= 1 it steps to (1, n-1) and leaves the order as it is.
C10_Amended ==
    [][/\ (getX(idx) = getOrder(idx) /\ getY(idx) = 0) =>
             idx' = [_n |-> getOrder(idx) + 1, _i |-> getIndex(idx) + 1,
                     _x |-> 0, _y |-> getOrder(idx) + 1]
       /\ (getX(idx) = 0 /\ getY(idx) = getOrder(idx) /\ getOrder(idx) >= 1) =>
             idx' = [_n |-> getOrder(idx), _i |-> getIndex(idx) + 1,
                     _x |-> 1, _y |-> getOrder(idx) - 1]]_vars

\* the second pair of an order no constructor of the model builds
C10_Witness ==
    /\ getOrder(idx) = 2 * MaxCtorXY + 1
    /\ getX(idx) = 1
    /\ getY(idx) = getOrder(idx) - 1


(***************************************************************************)
(* Properties of HermiteEvaluator                                          *)
(***************************************************************************)
\* C5: getOrder() is the order the evaluator was constructed with, after any
\* sequence of fill and sum calls, and the two workspaces keep order+1
\* elements.
C5_OrderFixed ==
    /\ HermiteEvaluator_getOrder(he) = heOrder
    /\ Len(he._xWorkspace) = heOrder + 1
    /\ Len(he._yWorkspace) = heOrder + 1

\* a sum has overwritten the workspaces of an evaluator of order 2 with the
\* zeroth moments (1, 0, 0) and the first moments (0, 1, 0)
C5_Witness ==
    /\ lastCall = "sumIntegration"
    /\ status = "ok"
    /\ heOrder = 2
    /\ he._xWorkspace = <<1, 0, 0>>
    /\ he._yWorkspace = <<0, 1, 0>>

\* C7: a fillEvaluation call on a target whose length is not
\* (order+1)(order+2)/2 ends in a reported failure, assigns no element of
\* target and leaves getOrder() as it was; on a target of that length it
\* assigns every element.
C7_FillEvaluationLength ==
    [][lastCall' = "fillEvaluation" =>
          /\ HermiteEvaluator_getOrder(he') = HermiteEvaluator_getOrder(he)
          /\ IF Len(target) # PackedSize(HermiteEvaluator_getOrder(he))
             THEN /\ status' = "fatal"
                  /\ target' = target
                  /\ written' = {}
             ELSE /\ status' = "ok"
                  /\ Len(target') = Len(target)
                  /\ written' = 0..(Len(target) - 1)]_vars

\* fillEvaluation has failed on a target one element short
C7_Witness ==
    /\ lastCall = "fillEvaluation"
    /\ status = "fatal"
    /\ heOrder >= 1
    /\ Len(target) = PackedSize(heOrder) - 1
    /\ written = {}

(***************************************************************************)
(* Properties of ModelBuilder                                              *)
(***************************************************************************)
\* C6: once update(e) has run, the builder is the one a fresh builder over the
\* constructor's arrays becomes by a single update(e), whatever updates came
\* before; and the stored x and y arrays are the constructor's.
C6_UpdateFromScratch ==
    /\ mb._x = mbCtor.x
    /\ mb._y = mbCtor.y
    /\ lastEllipse # <<>> =>
          \A junk \in JunkValues :
              mb = update(ModelBuilder(mbCtor.order, mbCtor.x, mbCtor.y, junk),
                          lastEllipse[1])

ZeroMatrix(n) == [c \in 1..computeSize(n) |-> [k \in 1..NPix |-> 0]]

\* update was called after an accumulation made under another ellipse: the
\* output matrix holds a design matrix that is not the current one
C6_Witness ==
    /\ mbLastCall.op = "update"
    /\ adds = 1
    /\ mbCtor.order >= 1
    /\ Len(output) = computeSize(mbCtor.order)
    /\ output # ZeroMatrix(mbCtor.order)
    /\ output # addColumns(mb, mbCtor.order, ZeroMatrix(mbCtor.order))
    /\ \E e \in Ellipses :
          output = addColumns(update(mb, e), mbCtor.order, ZeroMatrix(mbCtor.order))

=============================================================================
